---- MODULE Spec2Model ----
(***************************************************************************)
(* NoctiForge worker: the function-invocation registry                     *)
(* (worker/function_invocations.rs) and the process container lifecycle    *)
(* (worker/container.rs), as concurrently scheduled tasks sharing the      *)
(* registry map, its reader/writer lock, the bundle directories on disk    *)
(* and the sandboxes of the container runtime.                             *)
(***************************************************************************)
EXTENDS Integers, Sequences, FiniteSets, TLC

\* ------------------------------------------------------------------ bounds
NumProcs == 2
NumIds == 2
NumUrls == 2
MaxOps == 3
NumBg == 2
Interval == 2
MaxSleeps == 2

Procs == 1..NumProcs
Ids == 1..NumIds
Urls == 1..NumUrls
BgTasks == (NumProcs + 1)..(NumProcs + NumBg)

\* ------------------------------------------------------------------- state
VARIABLES
    functions,   \* the registry HashMap: a function from the present keys to urls
    rw_readers,  \* tasks holding a read guard of the RwLock
    rw_writer,   \* tasks holding the write guard of the RwLock (at most one)
    fs,          \* fs[id]: the paths that exist in the bundle directory of id
    sandbox,     \* sandbox[id]: the runtime's container status for id
    pc,          \* position of each task
    op,          \* the operation a task runs (or ran last)
    cur_id,      \* instance_id argument (for delete_all: the key being deleted)
    cur_url,     \* url argument of insert (Execute: the request payload)
    keys,        \* delete_all: the snapshotted keys, in iteration order
    ki,          \* delete_all: index in keys of the key being deleted
    snap,        \* get_all: the clone under construction, then the returned map
    copied,      \* get_all: the keys of the map visited by clone so far
    ret,         \* Result of the last operation: "Ok" or an error
    ret_inv,     \* Option<Invocation> returned by get / insert, as a set
    log,         \* calls and effects of the current operation, in order
    nops,        \* operations called so far
    pre,         \* the registry as it would be without the task's own writes
    seen,        \* get_all: the registry contents since the call
    stable,      \* id -> url of an insert that returned and ran alone on id
    expect,      \* what stable was at the call of a get / get_all, and still is
    dirty,       \* insert: another insert/delete of the same id overlapped
    alone,       \* no other task had an operation in flight during this one
    obs,         \* precondition observed by the operation (see the steps)
    live,        \* ids with a container provisioned/reattached and not deleted
    created,     \* created[id]: bundle creations since the last removal
    last_ins,    \* id -> url of the last write-lock holder for id
    rootfs,      \* new_with_deps: the bundle path create_rootfs returned
    resp,        \* Execute: the ExecuteResponse returned, as a set
    cancel,      \* BackgroundJob.cancel: the token is cancelled
    bg_pc,       \* position of each task spawned by BackgroundJob::start
    bg_left,     \* ticks left of the sleep a reconciler task is in
    bg_sleeps,   \* sleeps a reconciler task has completed
    bg_stop_pc,  \* where a reconciler task was when stop() was first called
    bg_stop_sl   \* the sleeps it had completed then

vars == <<functions, rw_readers, rw_writer, fs, sandbox, pc, op, cur_id,
          cur_url, keys, ki, snap, copied, ret, ret_inv, log, nops, pre,
          seen, stable, expect, dirty, alone, obs, live, created, last_ins,
          rootfs, resp, cancel, bg_pc, bg_left, bg_sleeps, bg_stop_pc,
          bg_stop_sl>>

\* the groups of variables an action may leave alone
regVars == <<functions, rw_readers, rw_writer>>
diskVars == <<fs, sandbox>>
argVars == <<op, cur_id, cur_url>>
daVars == <<keys, ki>>
gaVars == <<snap, copied>>
retVars == <<ret, ret_inv>>
c1Vars == <<stable, expect, dirty>>
ghostVars == <<live, created, last_ins>>
bgVars == <<cancel, bg_pc, bg_left, bg_sleeps, bg_stop_pc, bg_stop_sl>>

\* ----------------------------------------------------------------- helpers
EmptyMap == [k \in {} |-> 0]

MapInsertKeepsOld(m, id, url) ==
    [k \in (DOMAIN m) \cup {id} |-> IF k \in DOMAIN m THEN m[k] ELSE url]

\* HashMap::insert: add or overwrite one key
MapInsert(m, id, url) ==
    [k \in (DOMAIN m) \cup {id} |-> IF k = id THEN url ELSE m[k]]

MapRemoveIfUnchanged(m, id) == m

\* HashMap::remove: drop one key (a no-op when absent)
MapRemove(m, id) == [k \in (DOMAIN m) \ {id} |-> m[k]]

\* HashMap::get(..).cloned(): Option as a set of at most one element
MapGet(m, id) == IF id \in DOMAIN m THEN {m[id]} ELSE {}

Restrict(m, S) == [k \in (DOMAIN m) \cap S |-> m[k]]

\* tokio RwLock: a read guard is granted while no write guard is held
CanRead == rw_writer = {}

CanWriteNoReaderCheck == rw_writer = {}

\* tokio RwLock: the write guard is granted while no guard at all is held
CanWrite == rw_writer = {} /\ rw_readers = {}

\* the bundle layout written by create_rootfs
BundleDir == "."
FullBundle == {".", "config.json", "rootfs", "rootfs/app", "rootfs/run"}

Status == {"absent", "created", "running", "stopped"}

\* the task has no operation in flight: it has not called, or has returned
Idle(p) == pc[p] \in {"idle", "done"}

\* no task is at the point of handing a result to its caller
NoneDone == \A q \in Procs : pc[q] # "done"

\* task q is inside an insert or a delete of id
Mutating(q, id) ==
    /\ ~Idle(q)
    /\ cur_id[q] = id
    /\ \/ op[q] \in {"insert", "delete"}
       \/ op[q] = "delete_all" /\ pc[q] \notin {"da_lock", "da_keys"}

\* bookkeeping maps of the history variables (not the program's HashMap)
With(m, id, url) == [k \in (DOMAIN m) \cup {id} |-> IF k = id THEN url ELSE m[k]]
Without(m, id) == [k \in (DOMAIN m) \ {id} |-> m[k]]

InGetAll(q) == op[q] = "get_all" /\ pc[q] \in {"ga_lock", "ga_copy"}

\* an insert or delete of id starts in task p: what was known about id lapses
MutBegin(p, id) ==
    /\ stable' = Without(stable, id)
    /\ expect' = [q \in Procs |-> IF q = p THEN EmptyMap ELSE Without(expect[q], id)]
    /\ dirty' = [q \in Procs |->
                   IF q = p THEN \E r \in Procs \ {p} : Mutating(r, id)
                   ELSE IF Mutating(q, id) THEN TRUE ELSE dirty[q]]

\* task p calls operation o: arguments, budget and the history variables
Begin(p, o, id, url, to) ==
    /\ pc[p] = "idle"
    /\ NoneDone
    /\ nops < MaxOps
    /\ nops' = nops + 1
    /\ pc' = [pc EXCEPT ![p] = to]
    /\ op' = [op EXCEPT ![p] = o]
    /\ cur_id' = [cur_id EXCEPT ![p] = id]
    /\ cur_url' = [cur_url EXCEPT ![p] = url]
    /\ keys' = [keys EXCEPT ![p] = <<>>]
    /\ ki' = [ki EXCEPT ![p] = 0]
    /\ snap' = [snap EXCEPT ![p] = EmptyMap]
    /\ copied' = [copied EXCEPT ![p] = {}]
    /\ ret' = [ret EXCEPT ![p] = "none"]
    /\ ret_inv' = [ret_inv EXCEPT ![p] = {}]
    /\ log' = [log EXCEPT ![p] = <<>>]
    /\ pre' = [pre EXCEPT ![p] = functions]
    /\ seen' = [seen EXCEPT ![p] = IF o = "get_all" THEN {functions} ELSE {}]
    /\ alone' = [q \in Procs |->
                   IF q = p THEN \A r \in Procs \ {p} : Idle(r)
                   ELSE IF Idle(q) THEN alone[q] ELSE FALSE]
    /\ obs' = [obs EXCEPT ![p] = FALSE]
    /\ IF o \in {"insert", "delete"} THEN MutBegin(p, id)
       ELSE /\ stable' = stable
            /\ dirty' = [dirty EXCEPT ![p] = FALSE]
            /\ expect' = [expect EXCEPT ![p] =
                            IF o = "get" THEN Restrict(stable, {id})
                            ELSE IF o = "get_all" THEN stable
                            ELSE EmptyMap]
    /\ rootfs' = [rootfs EXCEPT ![p] = <<>>]
    /\ resp' = [resp EXCEPT ![p] = {}]
    /\ UNCHANGED bgVars
    /\ UNCHANGED <<regVars, diskVars, ghostVars>>

\* the caller of task p has taken the result: the task is free to call again
Forget(p) ==
    /\ pc[p] = "done"
    /\ pc' = [pc EXCEPT ![p] = "idle"]
    /\ op' = [op EXCEPT ![p] = "none"]
    /\ cur_id' = [cur_id EXCEPT ![p] = 0]
    /\ cur_url' = [cur_url EXCEPT ![p] = 0]
    /\ keys' = [keys EXCEPT ![p] = <<>>]
    /\ ki' = [ki EXCEPT ![p] = 0]
    /\ snap' = [snap EXCEPT ![p] = EmptyMap]
    /\ copied' = [copied EXCEPT ![p] = {}]
    /\ ret' = [ret EXCEPT ![p] = "none"]
    /\ ret_inv' = [ret_inv EXCEPT ![p] = {}]
    /\ log' = [log EXCEPT ![p] = <<>>]
    /\ pre' = [pre EXCEPT ![p] = EmptyMap]
    /\ seen' = [seen EXCEPT ![p] = {}]
    /\ expect' = [expect EXCEPT ![p] = EmptyMap]
    /\ dirty' = [dirty EXCEPT ![p] = FALSE]
    /\ alone' = [alone EXCEPT ![p] = TRUE]
    /\ obs' = [obs EXCEPT ![p] = FALSE]
    /\ rootfs' = [rootfs EXCEPT ![p] = <<>>]
    /\ resp' = [resp EXCEPT ![p] = {}]
    /\ UNCHANGED bgVars
    /\ UNCHANGED <<regVars, diskVars, nops, stable, ghostVars>>

\* the registry map changes to m: every get_all in flight has now seen m
Seen(m) == seen' = [q \in Procs |-> IF InGetAll(q) THEN seen[q] \cup {m} ELSE seen[q]]

\* ------------------------------------------------ FunctionInvocations::get
CallGet(p, id) == Begin(p, "get", id, 0, "get_lock")

\* self.functions.read().await
GetAcquire(p) ==
    /\ pc[p] = "get_lock"
    /\ NoneDone
    /\ CanRead
    /\ rw_readers' = rw_readers \cup {p}
    /\ pc' = [pc EXCEPT ![p] = "get_read"]
    /\ UNCHANGED <<rootfs, resp, bgVars>>
    /\ UNCHANGED <<functions, rw_writer, diskVars, argVars, daVars, gaVars,
                   retVars, log, nops, pre, seen, c1Vars, alone, obs, ghostVars>>

\* functions.get(instance_id).cloned(), the guard dropped on return
GetRead(p) ==
    /\ pc[p] = "get_read"
    /\ NoneDone
    /\ ret_inv' = [ret_inv EXCEPT ![p] = MapGet(functions, cur_id[p])]
    /\ ret' = [ret EXCEPT ![p] = "Ok"]
    /\ rw_readers' = rw_readers \ {p}
    /\ pc' = [pc EXCEPT ![p] = "done"]
    /\ UNCHANGED <<rootfs, resp, bgVars>>
    /\ UNCHANGED <<functions, rw_writer, diskVars, argVars, daVars, gaVars,
                   log, nops, pre, seen, c1Vars, alone, obs, ghostVars>>

\* -------------------------------------------- FunctionInvocations::get_all
CallGetAll(p) == Begin(p, "get_all", 0, 0, "ga_lock")

\* self.functions.read().await
GetAllAcquire(p) ==
    /\ pc[p] = "ga_lock"
    /\ NoneDone
    /\ CanRead
    /\ rw_readers' = rw_readers \cup {p}
    /\ pc' = [pc EXCEPT ![p] = "ga_copy"]
    /\ UNCHANGED <<rootfs, resp, bgVars>>
    /\ UNCHANGED <<functions, rw_writer, diskVars, argVars, daVars, gaVars,
                   retVars, log, nops, pre, seen, c1Vars, alone, obs, ghostVars>>

\* the key HashMap::clone visits next: an entry it has not copied yet
NextToCopy(p) == (Ids \ copied[p])

\* functions.clone(): one entry of the map is visited and copied
GetAllCopy(p) ==
    /\ pc[p] = "ga_copy"
    /\ NoneDone
    /\ NextToCopy(p) # {}
    /\ LET k == CHOOSE i \in NextToCopy(p) : \A j \in NextToCopy(p) : i <= j IN
          /\ copied' = [copied EXCEPT ![p] = @ \cup {k}]
          /\ snap' = [snap EXCEPT ![p] =
                        IF k \in DOMAIN functions THEN MapInsert(@, k, functions[k])
                        ELSE @]
    /\ UNCHANGED <<rootfs, resp, bgVars>>
    /\ UNCHANGED <<regVars, diskVars, pc, argVars, daVars, retVars, log, nops,
                   pre, seen, c1Vars, alone, obs, ghostVars>>

\* the clone is complete: the guard is dropped and the copy returned
GetAllReturn(p) ==
    /\ pc[p] = "ga_copy"
    /\ NoneDone
    /\ NextToCopy(p) = {}
    /\ rw_readers' = rw_readers \ {p}
    /\ ret' = [ret EXCEPT ![p] = "Ok"]
    /\ pc' = [pc EXCEPT ![p] = "done"]
    /\ UNCHANGED <<rootfs, resp, bgVars>>
    /\ UNCHANGED <<functions, rw_writer, diskVars, argVars, daVars, gaVars,
                   ret_inv, log, nops, pre, seen, c1Vars, alone, obs, ghostVars>>

\* --------------------------------------------- FunctionInvocations::insert
CallInsert(p, id, url) == Begin(p, "insert", id, url, "ins_lock")

\* self.functions.write().await (new_invocation is already constructed)
InsAcquire(p) ==
    /\ pc[p] = "ins_lock"
    /\ NoneDone
    /\ CanWrite
    /\ rw_writer' = {p}
    /\ pc' = [pc EXCEPT ![p] = "ins_write"]
    /\ last_ins' = With(last_ins, cur_id[p], cur_url[p])
    /\ UNCHANGED <<rootfs, resp, bgVars>>
    /\ UNCHANGED <<functions, rw_readers, diskVars, argVars, daVars, gaVars,
                   retVars, log, nops, pre, seen, c1Vars, alone, obs, live, created>>

insert_returns_old(m, id, url) == MapGet(m, id)

\* insert, line 52: the value returned is the Invocation just constructed
\* (m is the map before the write)
insert_returns(m, id, url) == {url}

\* functions.insert(instance_id, new_invocation.clone()); new_invocation
InsWrite(p) ==
    /\ pc[p] = "ins_write"
    /\ NoneDone
    /\ functions' = MapInsert(functions, cur_id[p], cur_url[p])
    /\ rw_writer' = {}
    /\ ret_inv' = [ret_inv EXCEPT ![p] = insert_returns(functions, cur_id[p], cur_url[p])]
    /\ ret' = [ret EXCEPT ![p] = "Ok"]
    /\ pc' = [pc EXCEPT ![p] = "done"]
    /\ pre' = [q \in Procs |->
                 IF q = p THEN pre[q] ELSE With(pre[q], cur_id[p], cur_url[p])]
    /\ Seen(functions')
    /\ stable' = IF dirty[p] THEN stable ELSE With(stable, cur_id[p], cur_url[p])
    /\ UNCHANGED <<rootfs, resp, bgVars>>
    /\ UNCHANGED <<rw_readers, diskVars, argVars, daVars, gaVars, log, nops,
                   expect, dirty, alone, obs, ghostVars>>

\* ------------------------------------------------------- container runtime
Logged(p, entries) == log' = [log EXCEPT ![p] = @ \o entries]

\* ContainerOps::load_container: the sandbox description is read from the
\* bundle of id; an I/O error may strike a description that is there
load_container(id) ==
    IF "config.json" \notin fs[id] \/ sandbox[id] = "absent"
    THEN {"NotFound"}
    ELSE {"Ok", "IoFailure"}

\* ContainerOps::start_container: the runtime starts the sandbox, or refuses
start_container(id) == {"Ok", "SandboxStartFailure"}

\* ContainerOps::build_container: the runtime builds the sandbox, or refuses
build_container(id) == {"Ok", "SandboxBuildFailure"}

try_from_never_starts(id) ==
    {[res |-> e, calls |-> <<<<"load_container", id, e>>>>, sb |-> sandbox[id]] :
        e \in load_container(id)}

try_from_always_starts(id) ==
    LET loads == load_container(id) IN
    {[res |-> e, calls |-> <<<<"load_container", id, e>>>>, sb |-> sandbox[id]] :
        e \in loads \ {"Ok"}}
    \cup
    (IF "Ok" \notin loads THEN {}
     ELSE {[res |-> r,
            calls |-> <<<<"load_container", id, "Ok">>, <<"start_container", id, r>>>>,
            sb |-> IF r = "Ok" THEN "running" ELSE sandbox[id]] :
              r \in start_container(id)})

try_from_swallows_load_error(id) ==
    {[res |-> "Ok", calls |-> <<<<"load_container", id, e>>>>, sb |-> sandbox[id]] :
        e \in load_container(id)}

\* try_from_with_ops: load, then start unless the status is Running.
\* The outcomes: the result, the calls made, the sandbox status left.
try_from_with_ops(id) ==
    LET loads == load_container(id) IN
    {[res |-> e, calls |-> <<<<"load_container", id, e>>>>, sb |-> sandbox[id]] :
        e \in loads \ {"Ok"}}
    \cup
    (IF "Ok" \notin loads THEN {}
     ELSE IF sandbox[id] # "running"
     THEN {[res |-> r,
            calls |-> <<<<"load_container", id, "Ok">>, <<"start_container", id, r>>>>,
            sb |-> IF r = "Ok" THEN "running" ELSE sandbox[id]] :
              r \in start_container(id)}
     ELSE {[res |-> "Ok", calls |-> <<<<"load_container", id, "Ok">>>>,
            sb |-> sandbox[id]]})

\* ProccesContainer::load(root_path, instance_id): reattach from the
\* deterministic bundle path of the id
load(id) == try_from_with_ops(id)

remove_dir_contents(id) ==
    IF BundleDir \notin fs[id]
    THEN {[res |-> "NotFound", left |-> fs[id]]}
    ELSE {[res |-> "Ok", left |-> {BundleDir}]}

\* tokio::fs::remove_dir_all on the bundle of id: the result and what is left
\* (a failure may leave the directory as it was, or emptied but present)
remove_dir_all(id) ==
    IF BundleDir \notin fs[id]
    THEN {[res |-> "NotFound", left |-> fs[id]]}
    ELSE {[res |-> "Ok", left |-> {}],
          [res |-> "IoFailure", left |-> fs[id]],
          [res |-> "IoFailure", left |-> {BundleDir}]}

\* the sandbox's process exits by itself
SandboxExit(id) ==
    /\ sandbox[id] = "running"
    /\ NoneDone
    /\ sandbox' = [sandbox EXCEPT ![id] = "stopped"]
    /\ UNCHANGED <<rootfs, resp, bgVars>>
    /\ UNCHANGED <<regVars, fs, pc, argVars, daVars, gaVars, retVars, log, nops,
                   pre, seen, c1Vars, alone, obs, ghostVars>>

\* --------------------------------------------- FunctionInvocations::delete
CallDelete(p, id) == Begin(p, "delete", id, 0, "d_load")

da_ignores_error(r) == FALSE

\* delete_all, line 73: `self.delete(&key).await?` returns early on an error
da_stop(r) == r # "Ok"

\* delete returns r to its caller: the task itself, or the loop of delete_all,
\* which goes on to the next key or returns
DeleteReturn(p, r) ==
    IF op[p] = "delete_all" /\ ~da_stop(r) /\ ki[p] < Len(keys[p])
    THEN /\ ki' = [ki EXCEPT ![p] = @ + 1]
         /\ cur_id' = [cur_id EXCEPT ![p] = keys[p][ki[p] + 1]]
         /\ pc' = [pc EXCEPT ![p] = "d_load"]
         /\ MutBegin(p, keys[p][ki[p] + 1])
         /\ UNCHANGED <<op, cur_url, keys, retVars>>
    ELSE /\ pc' = [pc EXCEPT ![p] = "done"]
         /\ ret' = [ret EXCEPT ![p] =
                      IF op[p] = "delete_all" /\ ~da_stop(r) THEN "Ok" ELSE r]
         /\ UNCHANGED <<argVars, daVars, ret_inv, c1Vars>>

\* delete, line 57: `ProccesContainer::load(..).await?`
d_load_err(r) == r # "Ok"

\* ProccesContainer::load(&self.root_path, instance_id).await?
DLoad(p) ==
    /\ pc[p] = "d_load"
    /\ NoneDone
    /\ \E o \in load(cur_id[p]) :
          /\ sandbox' = [sandbox EXCEPT ![cur_id[p]] = o.sb]
          /\ Logged(p, o.calls)
          /\ live' = IF o.res = "Ok" THEN live \cup {cur_id[p]} ELSE live
          /\ obs' = [obs EXCEPT ![p] =
                       cur_id[p] \notin DOMAIN functions /\ BundleDir \notin fs[cur_id[p]]]
          /\ IF d_load_err(o.res)
             THEN DeleteReturn(p, o.res)
             ELSE /\ pc' = [pc EXCEPT ![p] = "d_cleanup"]
                  /\ UNCHANGED <<argVars, daVars, retVars, c1Vars>>
    /\ UNCHANGED <<rootfs, resp, bgVars>>
    /\ UNCHANGED <<regVars, fs, gaVars, nops, pre, seen, alone, created, last_ins>>

d_cleanup_ignores_error(r) == FALSE

\* delete, line 58: `func_proc.cleanup().await?`
d_cleanup_err(r) == r # "Ok"

\* cleanup returns r: to its caller when called on a handle, or to delete,
\* which returns the error or goes on to take the write lock
CleanupReturn(p, r) ==
    IF op[p] = "cleanup"
    THEN /\ pc' = [pc EXCEPT ![p] = "done"]
         /\ ret' = [ret EXCEPT ![p] = r]
         /\ UNCHANGED <<argVars, daVars, ret_inv, c1Vars>>
    ELSE IF d_cleanup_err(r)
    THEN DeleteReturn(p, r)
    ELSE /\ pc' = [pc EXCEPT ![p] = "d_lock"]
         /\ UNCHANGED <<argVars, daVars, retVars, c1Vars>>

cleanup_skips_check(id) == TRUE

\* cleanup, line 199: path.exists()
cleanup_path_exists(id) == BundleDir \in fs[id]

\* cleanup, lines 198-199 and 204: `if path.exists()`; a missing bundle is a
\* silent no-op, Ok(())
DExists(p) ==
    /\ pc[p] = "d_cleanup"
    /\ NoneDone
    /\ Logged(p, <<<<"exists", cur_id[p],
                     IF BundleDir \in fs[cur_id[p]] THEN "true" ELSE "false">>>>)
    /\ IF cleanup_path_exists(cur_id[p])
       THEN /\ pc' = [pc EXCEPT ![p] = "d_rm"]
            /\ UNCHANGED <<argVars, daVars, retVars, c1Vars>>
       ELSE CleanupReturn(p, "Ok")
    /\ UNCHANGED <<rootfs, resp, bgVars>>
    /\ UNCHANGED <<regVars, diskVars, gaVars, nops, pre, seen, alone, obs,
                   ghostVars>>

\* cleanup, lines 200-202: tokio::fs::remove_dir_all(&path).await...?
DRemoveDir(p) ==
    /\ pc[p] = "d_rm"
    /\ NoneDone
    /\ \E o \in remove_dir_all(cur_id[p]) :
          /\ fs' = [fs EXCEPT ![cur_id[p]] = o.left]
          /\ Logged(p, <<<<"remove_dir_all", cur_id[p], o.res>>>>)
          /\ live' = IF o.res = "Ok" THEN live \ {cur_id[p]} ELSE live
          /\ created' = IF o.res = "Ok" THEN [created EXCEPT ![cur_id[p]] = 0]
                        ELSE created
          /\ CleanupReturn(p, o.res)
    /\ UNCHANGED <<rootfs, resp, bgVars>>
    /\ UNCHANGED <<regVars, sandbox, gaVars, nops, pre, seen, alone, obs, last_ins>>

\* self.functions.write().await
DAcquire(p) ==
    /\ pc[p] = "d_lock"
    /\ NoneDone
    /\ CanWrite
    /\ rw_writer' = {p}
    /\ pc' = [pc EXCEPT ![p] = "d_remove"]
    /\ last_ins' = Without(last_ins, cur_id[p])
    /\ UNCHANGED <<rootfs, resp, bgVars>>
    /\ UNCHANGED <<functions, rw_readers, diskVars, argVars, daVars, gaVars,
                   retVars, log, nops, pre, seen, c1Vars, alone, obs, live, created>>

\* functions.remove(instance_id); Ok(()), the write guard dropped on return
DRemove(p) ==
    /\ pc[p] = "d_remove"
    /\ NoneDone
    /\ functions' = MapRemove(functions, cur_id[p])
    /\ rw_writer' = {}
    /\ Logged(p, <<<<"remove", cur_id[p], "Ok">>>>)
    /\ pre' = [q \in Procs |-> IF q = p THEN pre[q] ELSE Without(pre[q], cur_id[p])]
    /\ Seen(functions')
    /\ DeleteReturn(p, "Ok")
    /\ UNCHANGED <<rootfs, resp, bgVars>>
    /\ UNCHANGED <<rw_readers, diskVars, gaVars, nops, alone, obs, ghostVars>>

\* ----------------------------------------- FunctionInvocations::delete_all
CallDeleteAll(p) == Begin(p, "delete_all", 0, 0, "da_lock")

\* self.functions.read().await
DaAcquire(p) ==
    /\ pc[p] = "da_lock"
    /\ NoneDone
    /\ CanRead
    /\ rw_readers' = rw_readers \cup {p}
    /\ pc' = [pc EXCEPT ![p] = "da_keys"]
    /\ UNCHANGED <<rootfs, resp, bgVars>>
    /\ UNCHANGED <<functions, rw_writer, diskVars, argVars, daVars, gaVars,
                   retVars, log, nops, pre, seen, c1Vars, alone, obs, ghostVars>>

OrdersOfAllIds(S) ==
    {s \in [1..Cardinality(Ids) -> Ids] :
        \A i, j \in 1..Cardinality(Ids) : i # j => s[i] # s[j]}

\* the orders in which a HashMap may hand out the keys in S
Orders(S) ==
    {s \in [1..Cardinality(S) -> S] : \A i, j \in 1..Cardinality(S) : i # j => s[i] # s[j]}

\* functions.keys().cloned().collect(), the read guard dropped at the end of
\* the block; then the loop takes its first key, or returns Ok(()) at once
DaKeys(p) ==
    /\ pc[p] = "da_keys"
    /\ NoneDone
    /\ rw_readers' = rw_readers \ {p}
    /\ \E s \in Orders(DOMAIN functions) :
          /\ keys' = [keys EXCEPT ![p] = s]
          /\ IF Len(s) = 0
             THEN /\ pc' = [pc EXCEPT ![p] = "done"]
                  /\ ret' = [ret EXCEPT ![p] = "Ok"]
                  /\ UNCHANGED <<ki, cur_id, c1Vars>>
             ELSE /\ pc' = [pc EXCEPT ![p] = "d_load"]
                  /\ ki' = [ki EXCEPT ![p] = 1]
                  /\ cur_id' = [cur_id EXCEPT ![p] = s[1]]
                  /\ MutBegin(p, s[1])
                  /\ UNCHANGED ret
    /\ UNCHANGED <<rootfs, resp, bgVars>>
    /\ UNCHANGED <<functions, rw_writer, diskVars, op, cur_url, gaVars, ret_inv,
                   log, nops, pre, seen, alone, obs, ghostVars>>

\* -------------------------------------------- ProccesContainer::load alone
CallLoad(p, id) == Begin(p, "load", id, 0, "l_load")

\* TryFrom<PathBuf>: reattach by a caller other than delete, through
\* try_from_with_ops; the handle is returned or not. Whether the sandbox was
\* running at the load is remembered.
LLoad(p) ==
    /\ pc[p] = "l_load"
    /\ NoneDone
    /\ \E o \in try_from_with_ops(cur_id[p]) :
          /\ sandbox' = [sandbox EXCEPT ![cur_id[p]] = o.sb]
          /\ Logged(p, o.calls)
          /\ live' = IF o.res = "Ok" THEN live \cup {cur_id[p]} ELSE live
          /\ ret' = [ret EXCEPT ![p] = o.res]
    /\ obs' = [obs EXCEPT ![p] = sandbox[cur_id[p]] = "running"]
    /\ pc' = [pc EXCEPT ![p] = "done"]
    /\ UNCHANGED <<rootfs, resp, bgVars>>
    /\ UNCHANGED <<regVars, fs, argVars, daVars, gaVars, ret_inv, nops, pre, seen,
                   c1Vars, alone, created, last_ins>>

\* ------------------------------------------------ ProccesContainer::cleanup
\* cleanup is called on a handle whose bundle() is the path of id; the steps
\* are DExists and DRemoveDir
CallCleanup(p, id) == Begin(p, "cleanup", id, 0, "d_cleanup")

\* ------------------------------------------ ProccesContainer::new_with_deps
CallNew(p, id) == Begin(p, "new", id, 0, "n_exists")

Parent(path) == IF path \in {"rootfs/app", "rootfs/run"} THEN "rootfs" ELSE BundleDir

ParentThere(id, path) == path = BundleDir \/ Parent(path) \in fs[id]

\* create_dir_all semantics: an existing directory is not an error
create_dir_recursive(id, path) ==
    IF path \in fs[id] THEN {"Ok"}
    ELSE IF ~ParentThere(id, path) THEN {"NotFound"}
    ELSE {"Ok", "IoFailure"}

\* DirBuilder::new().create(path): mkdir, not recursive: it fails on an
\* existing path and on a missing parent
create_dir(id, path) ==
    IF path \in fs[id] THEN {"AlreadyExists"}
    ELSE IF ~ParentThere(id, path) THEN {"NotFound"}
    ELSE {"Ok", "IoFailure"}

\* get_spec, File::create(config.json), write_all, flush: the file is created
\* or truncated; any of the four may fail
write_config(id) ==
    IF ~ParentThere(id, "config.json") THEN {"NotFound"} ELSE {"Ok", "IoFailure"}

\* copy_dir_all(handle_bin, rootfs/app): the handler tree is copied
copy_dir_all(id) ==
    IF ~ParentThere(id, "rootfs/app") THEN {"NotFound"} ELSE {"Ok", "IoFailure"}

n_rootfs_ignores_error(r) == FALSE

\* new_with_deps, line 141: `Self::create_rootfs(..).await?`
n_rootfs_err(r) == r # "Ok"

\* the directory under which the bundles of all instances live
RunDir == "/var/lib/noctiforge/native_worker/run"

\* PathResolver::get_instance_path: the bundle path of an id, a function of
\* the id alone
get_instance_path(id) == <<RunDir, id>>

create_rootfs_returns_rootfs_path(id) == <<RunDir, id, "rootfs">>

\* create_rootfs, lines 160 and 184: `Ok(path)`, the path resolved at entry
create_rootfs_returns(id) == get_instance_path(id)

\* create_rootfs returns r to new_with_deps, which returns the error or goes
\* on to build the container on the path returned
RootfsReturn(p, r) ==
    IF n_rootfs_err(r)
    THEN /\ pc' = [pc EXCEPT ![p] = "done"]
         /\ ret' = [ret EXCEPT ![p] = r]
         /\ rootfs' = rootfs
    ELSE /\ pc' = [pc EXCEPT ![p] = "n_build"]
         /\ ret' = ret
         /\ rootfs' = [rootfs EXCEPT ![p] = create_rootfs_returns(cur_id[p])]

path_exists_ignored(id) == FALSE

\* create_rootfs, line 162: path.exists()
path_exists(id) == BundleDir \in fs[id]

\* create_rootfs, lines 160-164: resolve the path, bail if it exists
NExists(p) ==
    /\ pc[p] = "n_exists"
    /\ NoneDone
    /\ obs' = [obs EXCEPT ![p] = BundleDir \in fs[cur_id[p]]]
    /\ Logged(p, <<<<"exists", cur_id[p],
                     IF path_exists(cur_id[p]) THEN "true" ELSE "false">>>>)
    /\ IF path_exists(cur_id[p])
       THEN RootfsReturn(p, "AlreadyExists")
       ELSE /\ pc' = [pc EXCEPT ![p] = "n_mkdir"]
            /\ ret' = ret
            /\ rootfs' = rootfs
    /\ UNCHANGED <<resp, bgVars>>
    /\ UNCHANGED <<regVars, diskVars, argVars, daVars, gaVars, ret_inv, nops, pre,
                   seen, c1Vars, alone, ghostVars>>

\* one creating step of create_rootfs: the path is made, or the error returned
CreateStep(p, from, name, path, outcomes, to) ==
    /\ pc[p] = from
    /\ NoneDone
    /\ \E r \in outcomes :
          /\ Logged(p, <<<<name, cur_id[p], r>>>>)
          /\ fs' = IF r = "Ok" THEN [fs EXCEPT ![cur_id[p]] = @ \cup {path}] ELSE fs
          /\ created' = IF r = "Ok" /\ path = BundleDir
                        THEN [created EXCEPT ![cur_id[p]] = @ + 1]
                        ELSE created
          /\ IF r = "Ok"
             THEN IF to = "n_build"
                  THEN RootfsReturn(p, "Ok")
                  ELSE /\ pc' = [pc EXCEPT ![p] = to]
                       /\ ret' = ret
                       /\ rootfs' = rootfs
             ELSE RootfsReturn(p, r)
    /\ obs' = [obs EXCEPT ![p] = @ \/ (path = BundleDir /\ BundleDir \in fs[cur_id[p]])]
    /\ UNCHANGED <<resp, bgVars>>
    /\ UNCHANGED <<regVars, sandbox, argVars, daVars, gaVars, ret_inv, nops, pre,
                   seen, c1Vars, alone, live, last_ins>>

\* line 166: DirBuilder::new().create(&path)
NMkdir(p) ==
    CreateStep(p, "n_mkdir", "create_dir", BundleDir,
               create_dir(cur_id[p], BundleDir), "n_config")

\* lines 168-175: the spec is built and written to config.json
NConfig(p) ==
    CreateStep(p, "n_config", "write_config", "config.json",
               write_config(cur_id[p]), "n_rootfs")

\* line 178: DirBuilder::new().create(&rootfs_path)
NRootfs(p) ==
    CreateStep(p, "n_rootfs", "create_dir_rootfs", "rootfs",
               create_dir(cur_id[p], "rootfs"), "n_copy")

\* line 180: copy_dir_all(handle_bin, rootfs_path.join("app"))
NCopy(p) ==
    CreateStep(p, "n_copy", "copy_dir_all", "rootfs/app",
               copy_dir_all(cur_id[p]), "n_run")

\* lines 182-184: DirBuilder::new().create(&rootfs_path.join("run")); Ok(path)
NRun(p) ==
    CreateStep(p, "n_run", "create_dir_run", "rootfs/run",
               create_dir(cur_id[p], "rootfs/run"), "n_build")

build_and_start_unchecked(id) ==
    {[res |-> r,
      calls |-> <<<<"build_container", id, e>>, <<"start_container", id, r>>>>,
      sb |-> IF r = "Ok" THEN "running" ELSE "created"] :
        e \in build_container(id), r \in start_container(id)}

\* new_with_deps, lines 143-151: build the container, then start it; a
\* failure of either is returned. The result, the calls, the status left.
build_and_start(id) ==
    {[res |-> e, calls |-> <<<<"build_container", id, e>>>>, sb |-> sandbox[id]] :
        e \in build_container(id) \ {"Ok"}}
    \cup
    (IF "Ok" \notin build_container(id) THEN {}
     ELSE {[res |-> r,
            calls |-> <<<<"build_container", id, "Ok">>, <<"start_container", id, r>>>>,
            sb |-> IF r = "Ok" THEN "running" ELSE "created"] :
              r \in start_container(id)})

bundle_rolled_back(id, r) == IF r = "Ok" THEN fs[id] ELSE {}

\* new_with_deps, lines 143-149: an error of build_container or
\* start_container is returned by `?` as it is; nothing is undone, the bundle
\* stays as create_rootfs left it
bundle_after_build(id, r) == fs[id]

\* the container is built for the id on the path create_rootfs returned,
\* started, and the handle returned
NBuild(p) ==
    /\ pc[p] = "n_build"
    /\ NoneDone
    /\ \E o \in build_and_start(cur_id[p]) :
          /\ sandbox' = [sandbox EXCEPT ![cur_id[p]] = o.sb]
          /\ fs' = [fs EXCEPT ![cur_id[p]] = bundle_after_build(cur_id[p], o.res)]
          /\ Logged(p, o.calls)
          /\ live' = IF o.res = "Ok" THEN live \cup {cur_id[p]} ELSE live
          /\ ret' = [ret EXCEPT ![p] = o.res]
    /\ pc' = [pc EXCEPT ![p] = "done"]
    /\ UNCHANGED <<rootfs, resp, bgVars>>
    /\ UNCHANGED <<regVars, argVars, daVars, gaVars, ret_inv, nops, pre, seen,
                   c1Vars, alone, obs, created, last_ins>>

\* ------------------------------------------------- WorkerService::execute
\* the function id the service passes to the worker
FunctionId == 123

\* FunctionWorker::execute(function_id): the worker resolves or provisions the
\* container and forwards the request; it succeeds or fails in one of these
worker_execute(fid) == {"Ok", "IoFailure", "SandboxBuildFailure", "SandboxStartFailure"}

execute_responds_on_error(r) == FALSE

\* execute, line 27: `.map_err(|e| Status::internal(..))?`
execute_err(r) == r # "Ok"

\* the request is received; its payload is dropped (line 24)
CallExecute(p, payload) == Begin(p, "execute", 0, payload, "ex_worker")

\* lines 25-31: the worker is called once with the fixed function id; its
\* error becomes Status::internal, its success the fixed response
ExWorker(p) ==
    /\ pc[p] = "ex_worker"
    /\ NoneDone
    /\ \E r \in worker_execute(FunctionId) :
          /\ Logged(p, <<<<"execute", FunctionId, r>>>>)
          /\ IF execute_err(r)
             THEN /\ ret' = [ret EXCEPT ![p] = "Internal"]
                  /\ resp' = resp
             ELSE /\ ret' = [ret EXCEPT ![p] = "Ok"]
                  /\ resp' = [resp EXCEPT ![p] = {[status |-> "Ok", resp |-> "Anwser"]}]
    /\ pc' = [pc EXCEPT ![p] = "done"]
    /\ UNCHANGED <<rootfs, bgVars>>
    /\ UNCHANGED <<regVars, diskVars, argVars, daVars, gaVars, ret_inv, nops, pre,
                   seen, c1Vars, alone, obs, ghostVars>>

\* ------------------------------------------------------------ BackgroundJob
\* what a step of the reconciler leaves alone: everything of the other tasks
procVars == <<pc, argVars, daVars, gaVars, retVars, log, nops, pre, seen, c1Vars,
              alone, obs, ghostVars, rootfs, resp>>

\* BackgroundJob::start: one more task is spawned, at the top of its loop
BgStart(t) ==
    /\ bg_pc[t] = "unspawned"
    /\ NoneDone
    /\ \A u \in BgTasks : u < t => bg_pc[u] # "unspawned"
    /\ bg_pc' = [bg_pc EXCEPT ![t] = "check"]
    /\ UNCHANGED <<regVars, diskVars, procVars, cancel, bg_left, bg_sleeps,
                   bg_stop_pc, bg_stop_sl>>

\* BackgroundJob::stop: self.cancel.cancel(). Where each task was at the
\* first call is remembered.
BgStop ==
    /\ NoneDone
    /\ cancel' = TRUE
    /\ bg_stop_pc' = IF cancel THEN bg_stop_pc ELSE bg_pc
    /\ bg_stop_sl' = IF cancel THEN bg_stop_sl ELSE bg_sleeps
    /\ UNCHANGED <<regVars, diskVars, procVars, bg_pc, bg_left, bg_sleeps>>

token_never_cancelled == FALSE

\* line 34: cancel.is_cancelled(), the token shared with the BackgroundJob
is_cancelled == cancel

\* line 34: `while !cancel.is_cancelled()`, then line 35: sleep(time) begins
BgCheck(t) ==
    /\ bg_pc[t] = "check"
    /\ NoneDone
    /\ IF is_cancelled
       THEN /\ bg_pc' = [bg_pc EXCEPT ![t] = "exit"]
            /\ bg_left' = bg_left
       ELSE /\ bg_sleeps[t] < MaxSleeps
            /\ bg_pc' = [bg_pc EXCEPT ![t] = "sleep"]
            /\ bg_left' = [bg_left EXCEPT ![t] = Interval]
    /\ UNCHANGED <<regVars, diskVars, procVars, cancel, bg_sleeps,
                   bg_stop_pc, bg_stop_sl>>

\* time passes for a sleeping task
BgTick(t) ==
    /\ bg_pc[t] = "sleep"
    /\ NoneDone
    /\ bg_left[t] > 0
    /\ bg_left' = [bg_left EXCEPT ![t] = @ - 1]
    /\ UNCHANGED <<regVars, diskVars, procVars, cancel, bg_pc, bg_sleeps,
                   bg_stop_pc, bg_stop_sl>>

sleep_elapsed_or_cancelled(t) == bg_left[t] = 0 \/ cancel

\* line 35: sleep(time).await completes when the time has passed, and only then
sleep_elapsed(t) == bg_left[t] = 0

\* lines 35-36: the sleep is over; function.get_all() is called
BgWake(t) ==
    /\ bg_pc[t] = "sleep"
    /\ NoneDone
    /\ sleep_elapsed(t)
    /\ bg_pc' = [bg_pc EXCEPT ![t] = "ga_lock"]
    /\ bg_sleeps' = [bg_sleeps EXCEPT ![t] = @ + 1]
    /\ UNCHANGED <<regVars, diskVars, procVars, cancel, bg_left, bg_stop_pc,
                   bg_stop_sl>>

\* get_all: self.functions.read().await
BgGetAllAcquire(t) ==
    /\ bg_pc[t] = "ga_lock"
    /\ NoneDone
    /\ CanRead
    /\ rw_readers' = rw_readers \cup {t}
    /\ bg_pc' = [bg_pc EXCEPT ![t] = "ga_keys"]
    /\ UNCHANGED <<functions, rw_writer, diskVars, procVars, cancel, bg_left,
                   bg_sleeps, bg_stop_pc, bg_stop_sl>>

\* lines 36-38: the clone is returned, the guard dropped, each key logged
\* (the log is no state of the program); back to the top of the loop
BgGetAllKeys(t) ==
    /\ bg_pc[t] = "ga_keys"
    /\ NoneDone
    /\ rw_readers' = rw_readers \ {t}
    /\ bg_pc' = [bg_pc EXCEPT ![t] = "check"]
    /\ UNCHANGED <<functions, rw_writer, diskVars, procVars, cancel, bg_left,
                   bg_sleeps, bg_stop_pc, bg_stop_sl>>

\* ------------------------------------------------------------ specification
\* FunctionInvocations::new: an empty map behind a free lock. The disk is what
\* an earlier run left: for each id no bundle, or a complete bundle whose
\* sandbox is running or has stopped.
Init ==
    /\ functions = EmptyMap
    /\ rw_readers = {}
    /\ rw_writer = {}
    /\ fs \in [Ids -> {{}, FullBundle}]
    /\ sandbox \in [Ids -> {"absent", "running", "stopped"}]
    /\ \A id \in Ids : (sandbox[id] = "absent") <=> (fs[id] = {})
    /\ pc = [p \in Procs |-> "idle"]
    /\ op = [p \in Procs |-> "none"]
    /\ cur_id = [p \in Procs |-> 0]
    /\ cur_url = [p \in Procs |-> 0]
    /\ keys = [p \in Procs |-> <<>>]
    /\ ki = [p \in Procs |-> 0]
    /\ snap = [p \in Procs |-> EmptyMap]
    /\ copied = [p \in Procs |-> {}]
    /\ ret = [p \in Procs |-> "none"]
    /\ ret_inv = [p \in Procs |-> {}]
    /\ log = [p \in Procs |-> <<>>]
    /\ nops = 0
    /\ pre = [p \in Procs |-> EmptyMap]
    /\ seen = [p \in Procs |-> {}]
    /\ stable = EmptyMap
    /\ expect = [p \in Procs |-> EmptyMap]
    /\ dirty = [p \in Procs |-> FALSE]
    /\ alone = [p \in Procs |-> TRUE]
    /\ obs = [p \in Procs |-> FALSE]
    /\ live = {}
    /\ created = [id \in Ids |-> IF fs[id] = {} THEN 0 ELSE 1]
    /\ last_ins = EmptyMap
    /\ rootfs = [p \in Procs |-> <<>>]
    /\ resp = [p \in Procs |-> {}]
    /\ cancel = FALSE
    /\ bg_pc = [t \in BgTasks |-> "unspawned"]
    /\ bg_left = [t \in BgTasks |-> 0]
    /\ bg_sleeps = [t \in BgTasks |-> 0]
    /\ bg_stop_pc = [t \in BgTasks |-> "none"]
    /\ bg_stop_sl = [t \in BgTasks |-> 0]

\* A result is taken by its caller (Forget) before anything else happens:
\* the state at a return is seen once, and what a task did last is not
\* carried along.
Next ==
    \/ \E p \in Procs, id \in Ids : CallGet(p, id)
    \/ \E p \in Procs : GetAcquire(p)
    \/ \E p \in Procs : GetRead(p)
    \/ \E p \in Procs : CallGetAll(p)
    \/ \E p \in Procs : GetAllAcquire(p)
    \/ \E p \in Procs : GetAllCopy(p)
    \/ \E p \in Procs : GetAllReturn(p)
    \/ \E p \in Procs, id \in Ids, url \in Urls : CallInsert(p, id, url)
    \/ \E p \in Procs : InsAcquire(p)
    \/ \E p \in Procs : InsWrite(p)
    \/ \E p \in Procs, id \in Ids : CallDelete(p, id)
    \/ \E p \in Procs : DLoad(p)
    \/ \E p \in Procs : DExists(p)
    \/ \E p \in Procs : DRemoveDir(p)
    \/ \E p \in Procs : DAcquire(p)
    \/ \E p \in Procs : DRemove(p)
    \/ \E p \in Procs : CallDeleteAll(p)
    \/ \E p \in Procs : DaAcquire(p)
    \/ \E p \in Procs : DaKeys(p)
    \/ \E p \in Procs, id \in Ids : CallLoad(p, id)
    \/ \E p \in Procs : LLoad(p)
    \/ \E p \in Procs, id \in Ids : CallNew(p, id)
    \/ \E p \in Procs : NExists(p)
    \/ \E p \in Procs : NMkdir(p)
    \/ \E p \in Procs : NConfig(p)
    \/ \E p \in Procs : NRootfs(p)
    \/ \E p \in Procs : NCopy(p)
    \/ \E p \in Procs : NRun(p)
    \/ \E p \in Procs : NBuild(p)
    \/ \E id \in Ids : SandboxExit(id)
    \/ \E p \in Procs : Forget(p)

Spec == Init /\ [][Next]_vars

\* The container lifecycle by itself: handles are provisioned, reattached and
\* cleaned up by concurrent callers, with no registry in between.
NextContainer ==
    \/ \E p \in Procs, id \in Ids : CallNew(p, id)
    \/ \E p \in Procs : NExists(p)
    \/ \E p \in Procs : NMkdir(p)
    \/ \E p \in Procs : NConfig(p)
    \/ \E p \in Procs : NRootfs(p)
    \/ \E p \in Procs : NCopy(p)
    \/ \E p \in Procs : NRun(p)
    \/ \E p \in Procs : NBuild(p)
    \/ \E p \in Procs, id \in Ids : CallLoad(p, id)
    \/ \E p \in Procs : LLoad(p)
    \/ \E p \in Procs, id \in Ids : CallCleanup(p, id)
    \/ \E p \in Procs : DExists(p)
    \/ \E p \in Procs : DRemoveDir(p)
    \/ \E id \in Ids : SandboxExit(id)
    \/ \E p \in Procs : Forget(p)

SpecContainer == Init /\ [][NextContainer]_vars

\* a worker that starts with nothing on disk
InitEmptyDisk == Init /\ \A id \in Ids : fs[id] = {}

\* the one task that writes the registry while the reconciler runs
Writer == CHOOSE p \in Procs : \A q \in Procs : p <= q

\* The reconciler: BackgroundJob::start and stop are called, the spawned
\* tasks loop, and the registry they observe is written by the inserts of
\* one task.
NextBg ==
    \/ \E t \in BgTasks : BgStart(t)
    \/ BgStop
    \/ \E t \in BgTasks : BgCheck(t)
    \/ \E t \in BgTasks : BgTick(t)
    \/ \E t \in BgTasks : BgWake(t)
    \/ \E t \in BgTasks : BgGetAllAcquire(t)
    \/ \E t \in BgTasks : BgGetAllKeys(t)
    \/ \E id \in Ids, url \in Urls : CallInsert(Writer, id, url)
    \/ \E p \in Procs : InsAcquire(p)
    \/ \E p \in Procs : InsWrite(p)
    \/ \E p \in Procs : Forget(p)

SpecBg == InitEmptyDisk /\ [][NextBg]_vars

\* a spawned task that can take a step of its loop does: the runtime polls
\* every ready task, a timer fires when its time has passed
BgTaskStep(t) ==
    BgCheck(t) \/ BgTick(t) \/ BgWake(t) \/ BgGetAllAcquire(t) \/ BgGetAllKeys(t)

\* a call on the registry that can go on does, and its result is taken
CallStep(p) == InsAcquire(p) \/ InsWrite(p) \/ Forget(p)

\* The reconciler on a runtime that leaves no ready task unpolled.
SpecBgFair ==
    /\ SpecBg
    /\ \A t \in BgTasks : WF_vars(BgTaskStep(t))
    /\ \A p \in Procs : WF_vars(CallStep(p))

\* The RPC service: Execute requests are handled concurrently.
NextExecute ==
    \/ \E p \in Procs, payload \in Urls : CallExecute(p, payload)
    \/ \E p \in Procs : ExWorker(p)
    \/ \E p \in Procs : Forget(p)

SpecExecute == InitEmptyDisk /\ [][NextExecute]_vars

TypeOK ==
    /\ DOMAIN functions \subseteq Ids
    /\ \A k \in DOMAIN functions : functions[k] \in Urls
    /\ Cardinality(rw_writer) <= 1
    /\ rw_writer # {} => rw_readers = {}
    /\ \A id \in Ids : fs[id] \subseteq FullBundle /\ sandbox[id] \in Status
    /\ \A t \in BgTasks : bg_left[t] \in 0..Interval /\ bg_sleeps[t] \in 0..MaxSleeps

\* ------------------------------------------------------------------ claims
Done(p, o) == pc[p] = "done" /\ op[p] = o

\* the results in a log that report a failure
Failures(l) == {i \in 1..Len(l) : l[i][3] \notin {"Ok", "true", "false"}}

\* the place of a call in delete: 1 reattach, 2 cleanup, 3 entry removal
Phase(name) ==
    IF name \in {"load_container", "start_container"} THEN 1
    ELSE IF name \in {"exists", "remove_dir_all"} THEN 2
    ELSE 3

\* C1: read-your-writes. A get(id) called after insert(id, url) returned,
\* with no other insert or delete of id called since that insert was called,
\* returns url; so does the id entry of a get_all. Operations on other ids
\* and reads run in between and concurrently.
C1_ReadYourWrites ==
    \A p \in Procs :
      /\ Done(p, "get") /\ cur_id[p] \in DOMAIN expect[p]
            => ret_inv[p] = {expect[p][cur_id[p]]}
      /\ Done(p, "get_all")
            => \A id \in DOMAIN expect[p] :
                  id \in DOMAIN snap[p] /\ snap[p][id] = expect[p][id]

\* a get returns the inserted url while an insert or delete of another id
\* is in flight
C1_Witness ==
    \E p \in Procs :
      /\ Done(p, "get")
      /\ cur_id[p] \in DOMAIN expect[p]
      /\ \E q \in Procs, id \in Ids \ {cur_id[p]} : Mutating(q, id)

\* C2: get_all is atomic with respect to writers. At most one task holds the
\* write guard and none holds a read guard meanwhile; and the map a get_all
\* returns is the registry's contents at one instant between its call and
\* its return.
C2_GetAllAtomic ==
    /\ Cardinality(rw_writer) <= 1
    /\ rw_writer # {} => rw_readers = {}
    /\ \A p \in Procs : Done(p, "get_all") => snap[p] \in seen[p]

\* a get_all returns while the registry changed during it and an insert or
\* delete is in flight
C2_Witness ==
    \E p \in Procs :
      /\ Done(p, "get_all")
      /\ Cardinality(seen[p]) >= 2
      /\ \E q \in Procs : pc[q] \in {"ins_lock", "d_rm", "d_lock"}

\* C3 (as claimed): the registry holds an entry for an id exactly when a
\* container of that id was provisioned or reattached and its bundle has not
\* been removed by cleanup.
C3_RegistryIffContainer ==
    \A id \in Ids : (id \in DOMAIN functions) <=> (id \in live)

\* C4: delete is abort-on-failure. Its calls come in the order reattach,
\* cleanup, entry removal; it returns Ok exactly when none of them failed;
\* when one failed it is the last call made, its error is the one returned,
\* and the registry is as it would be without the call.
C4_DeleteAbortsOnFailure ==
    \A p \in Procs :
      Done(p, "delete") =>
        LET l == log[p] IN
        /\ \A i, j \in 1..Len(l) : i < j => Phase(l[i][1]) <= Phase(l[j][1])
        /\ (ret[p] = "Ok") <=> (Failures(l) = {})
        /\ ret[p] = "Ok" =>
              /\ {Phase(l[i][1]) : i \in 1..Len(l)} = {1, 2, 3}
              /\ l[Len(l)][1] = "remove"
        /\ ret[p] # "Ok" =>
              /\ Failures(l) = {Len(l)}
              /\ l[Len(l)][3] = ret[p]
              /\ \A i \in 1..Len(l) : Phase(l[i][1]) # 3
              /\ functions = pre[p]

\* a delete of an id that has an entry fails in cleanup, with another entry
\* in the registry
C4_Witness ==
    \E p \in Procs :
      /\ Done(p, "delete")
      /\ ret[p] = "IoFailure"
      /\ log[p][Len(log[p])][1] = "remove_dir_all"
      /\ cur_id[p] \in DOMAIN functions

\* C5: delete of an id with no registry entry and no bundle fails with
\* NotFound and leaves the registry as it would be without the call.
C5_DeleteMissingNotFound ==
    \A p \in Procs :
      Done(p, "delete") /\ obs[p] =>
        /\ ret[p] = "NotFound"
        /\ functions = pre[p]

\* the delete of a missing id returns while another id has an entry
C5_Witness ==
    \E p \in Procs : Done(p, "delete") /\ obs[p] /\ DOMAIN functions # {}

\* C6: a delete_all that runs alone and in which no reattach or cleanup step
\* fails returns Ok, having deleted each of the N keys of the registry: the
\* registry is empty and no bundle directory of the N ids is left.
C6_DeleteAllEmpties ==
    \A p \in Procs :
      Done(p, "delete_all") /\ alone[p] /\ Failures(log[p]) = {} =>
        /\ ret[p] = "Ok"
        /\ {keys[p][i] : i \in 1..Len(keys[p])} = DOMAIN pre[p]
        /\ functions = EmptyMap
        /\ \A id \in DOMAIN pre[p] : fs[id] = {}

\* a delete_all of two entries succeeds
C6_Witness ==
    \E p \in Procs :
      /\ Done(p, "delete_all") /\ alone[p] /\ Failures(log[p]) = {}
      /\ Cardinality(DOMAIN pre[p]) >= 2

\* the index in keys of the key a log entry is about
KeyIndex(p, id) == CHOOSE i \in 1..Len(keys[p]) : keys[p][i] = id

\* C7: delete_all is sequential and stops at the first failure. The keys are
\* deleted one at a time in the order of the snapshot; when a delete fails,
\* its error is returned, it is the last call made, nothing is done for the
\* keys after it; and, run alone, those keys and the failing key are still in
\* the registry with their entries while the keys before it are gone, their
\* bundles removed.
C7_DeleteAllStopsAtFirstFailure ==
    \A p \in Procs :
      Done(p, "delete_all") =>
        LET l == log[p]
            n == ki[p]
        IN
        /\ \A i \in 1..Len(l) : \E k \in 1..Len(keys[p]) : keys[p][k] = l[i][2]
        /\ \A i, j \in 1..Len(l) :
              i < j => KeyIndex(p, l[i][2]) <= KeyIndex(p, l[j][2])
        /\ (ret[p] = "Ok") <=> (Failures(l) = {})
        /\ ret[p] # "Ok" =>
              /\ Failures(l) = {Len(l)}
              /\ l[Len(l)][3] = ret[p]
              /\ l[Len(l)][2] = keys[p][n]
              /\ \A i \in 1..Len(l) : KeyIndex(p, l[i][2]) <= n
              /\ \A i \in 1..Len(l) :
                    l[i][1] = "remove" => KeyIndex(p, l[i][2]) < n
              /\ alone[p] =>
                    /\ \A k \in n..Len(keys[p]) :
                          /\ keys[p][k] \in DOMAIN functions
                          /\ functions[keys[p][k]] = pre[p][keys[p][k]]
                    /\ \A k \in 1..(n - 1) :
                          /\ keys[p][k] \notin DOMAIN functions
                          /\ fs[keys[p][k]] = {}

\* a delete_all of two keys fails at the first and leaves the second alone
C7_Witness ==
    \E p \in Procs :
      /\ Done(p, "delete_all")
      /\ ret[p] # "Ok"
      /\ alone[p]
      /\ ki[p] = 1
      /\ Len(keys[p]) >= 2

\* C8: insert never fails and always overwrites. Every insert returns the
\* Invocation it constructed; and whenever the write lock is free, the entry
\* of an id is that of the insert that took the write lock last (with no
\* delete of the id taking it since).
C8_InsertLastWriterWins ==
    /\ \A p \in Procs :
          Done(p, "insert") =>
            /\ ret[p] = "Ok"
            /\ ret_inv[p] = {cur_url[p]}
            /\ MapGet(functions, cur_id[p]) = {cur_url[p]}
    /\ rw_writer = {} =>
          \A id \in DOMAIN last_ins : MapGet(functions, id) = {last_ins[id]}

\* an insert overwrote an entry and returned while another insert of the
\* same id with another url waits for the write lock
C8_Witness ==
    \E p, q \in Procs :
      /\ Done(p, "insert")
      /\ cur_id[p] \in DOMAIN pre[p]
      /\ pre[p][cur_id[p]] # cur_url[p]
      /\ op[q] = "insert" /\ pc[q] = "ins_lock"
      /\ cur_id[q] = cur_id[p]
      /\ cur_url[q] # cur_url[p]

\* C9: a bundle is created at most once per id. Between two removals of the
\* bundle of an id, at most one create_rootfs call creates its directory.
C9_BundleCreatedAtMostOnce ==
    \A id \in Ids : created[id] <= 1

\* two provisions of one id both passed the existence check; one created the
\* bundle, the other failed at the directory creation
C9_Witness ==
    \E p, q \in Procs :
      /\ p # q
      /\ Done(q, "new")
      /\ ret[q] = "AlreadyExists"
      /\ log[q] = <<<<"exists", cur_id[q], "false">>,
                    <<"create_dir", cur_id[q], "AlreadyExists">>>>
      /\ op[p] = "new" /\ cur_id[p] = cur_id[q]
      /\ pc[p] \notin {"idle", "n_exists", "n_mkdir"}
      /\ created[cur_id[q]] = 1

\* C10: provisioning an id whose bundle path exists fails with AlreadyExists
\* before any side effect: nothing is created, and neither build_container
\* nor start_container is called.
C10_ProvisionExistingFails ==
    \A p \in Procs :
      Done(p, "new") /\ obs[p] =>
        /\ ret[p] = "AlreadyExists"
        /\ \A i \in 1..Len(log[p]) :
              /\ log[p][i][1] \in {"exists", "create_dir"}
              /\ log[p][i][3] # "Ok"

\* a provision of an id whose bundle exists is refused at the check
C10_Witness ==
    \E p \in Procs :
      /\ Done(p, "new")
      /\ obs[p]
      /\ log[p] = <<<<"exists", cur_id[p], "true">>>>
      /\ fs[cur_id[p]] = FullBundle

\* the calls of a create_rootfs for id that succeeds, in order
CreateCalls(id) ==
    <<<<"exists", id, "false">>, <<"create_dir", id, "Ok">>,
      <<"write_config", id, "Ok">>, <<"create_dir_rootfs", id, "Ok">>,
      <<"copy_dir_all", id, "Ok">>, <<"create_dir_run", id, "Ok">>>>

\* what is on disk when create_rootfs, run alone, is at a position
BundleAt(at) ==
    IF at = "n_config" THEN {"."}
    ELSE IF at = "n_rootfs" THEN {".", "config.json"}
    ELSE IF at = "n_copy" THEN {".", "config.json", "rootfs"}
    ELSE IF at = "n_run" THEN {".", "config.json", "rootfs", "rootfs/app"}
    ELSE FullBundle

\* C11: bundle creation for an id whose bundle path does not exist, with no
\* I/O failure, succeeds: it fails only when the path exists or a step fails.
\* When it has returned, its calls were, in this order, the bundle directory,
\* config.json, rootfs, rootfs/app, rootfs/run, each made once; the path
\* returned is the deterministic path of the id; and, run alone, the bundle
\* holds exactly these, having grown in that order.
C11_BundleCreationSucceeds ==
    \A p \in Procs :
      /\ op[p] = "new" /\ pc[p] = "n_build" =>
            /\ log[p] = CreateCalls(cur_id[p])
            /\ rootfs[p] = get_instance_path(cur_id[p])
            /\ alone[p] => fs[cur_id[p]] = FullBundle
      /\ op[p] = "new" /\ alone[p] /\ pc[p] \in {"n_config", "n_rootfs", "n_copy", "n_run"}
            => fs[cur_id[p]] = BundleAt(pc[p])
      /\ Done(p, "new") /\ rootfs[p] = <<>>
            => log[p][1][3] = "true" \/ Failures(log[p]) # {}

\* a create_rootfs that ran alone has returned, the bundle complete
C11_Witness ==
    \E p \in Procs :
      /\ op[p] = "new" /\ pc[p] = "n_build"
      /\ alone[p]
      /\ log[p] = CreateCalls(cur_id[p])
      /\ fs[cur_id[p]] = FullBundle

\* C12: a reattach loads the sandbox exactly once, as its first call; when the
\* loaded status is Running, start_container is not called; otherwise it is
\* called exactly once; the handle is returned exactly when the load and the
\* start, if made, succeeded, and an error returned is that of the failing call.
C12_ReattachStartsOnlyWhenNeeded ==
    \A p \in Procs :
      Done(p, "load") =>
        LET l == log[p] IN
        /\ Len(l) >= 1
        /\ l[1][1] = "load_container"
        /\ \A i \in 1..Len(l) : l[i][2] = cur_id[p]
        /\ l[1][3] # "Ok" => Len(l) = 1 /\ ret[p] = l[1][3]
        /\ l[1][3] = "Ok" /\ obs[p] => Len(l) = 1 /\ ret[p] = "Ok"
        /\ l[1][3] = "Ok" /\ ~obs[p] =>
              /\ Len(l) = 2
              /\ l[2][1] = "start_container"
              /\ ret[p] = l[2][3]
        /\ (ret[p] = "Ok") <=> (Failures(l) = {})

\* a reattach found the sandbox stopped, started it and returned the handle
C12_Witness ==
    \E p \in Procs :
      /\ Done(p, "load")
      /\ ~obs[p]
      /\ ret[p] = "Ok"
      /\ log[p] = <<<<"load_container", cur_id[p], "Ok">>,
                    <<"start_container", cur_id[p], "Ok">>>>
      /\ sandbox[cur_id[p]] = "running"

\* C13: the cancellation flag matters only at the top of the loop. A task
\* enters a sleep only from the check, with the flag not set and the whole
\* interval ahead; a sleep, whether stop() is called during it or not, loses
\* one tick at a time and is left only when no time is left, for the
\* observation pass; and a task leaves the loop only at the check, with the
\* flag set.
C13_CancelCheckedAtLoopTop ==
    [][\A t \in BgTasks :
          /\ bg_pc[t] # "sleep" /\ bg_pc'[t] = "sleep" =>
                bg_pc[t] = "check" /\ ~cancel /\ bg_left'[t] = Interval
          /\ bg_pc[t] = "sleep" =>
                \/ bg_pc'[t] = "sleep" /\ bg_left'[t] \in {bg_left[t], bg_left[t] - 1}
                \/ bg_left[t] = 0 /\ bg_pc'[t] = "ga_lock"
          /\ bg_pc[t] # "exit" /\ bg_pc'[t] = "exit" =>
                bg_pc[t] = "check" /\ cancel]_vars

\* stop() was called while a task slept; the task has slept on to the end and
\* is in its observation pass
C13_Witness ==
    \E t \in BgTasks :
      /\ cancel
      /\ bg_stop_pc[t] = "sleep"
      /\ bg_sleeps[t] = bg_stop_sl[t] + 1
      /\ bg_pc[t] \in {"ga_lock", "ga_keys"}

\* stop() was first called after start() had spawned the task and before the
\* task's first sleep was over
StoppedEarly(t) == bg_stop_pc[t] \in {"check", "sleep"} /\ bg_stop_sl[t] = 0

\* the sleeps a task has begun
Begun(t) == bg_sleeps[t] + (IF bg_pc[t] = "sleep" THEN 1 ELSE 0)

\* C14 (as claimed): a task whose cancellation is requested right after
\* start() returned never begins a second sleep, and does not terminate before
\* one sleep of the interval is over.
C14_StopAfterStartTakesOneSleep ==
    \A t \in BgTasks :
      StoppedEarly(t) =>
        /\ Begun(t) <= 1
        /\ bg_pc[t] = "exit" => bg_sleeps[t] = 1

\* C15 (as claimed): once stop() has been called no observation pass is
\* started: a task that is in a get_all with the flag set was in it when
\* stop() was called.
C15_ObservationGatedOnCancel ==
    \A t \in BgTasks :
      cancel /\ bg_pc[t] \in {"ga_lock", "ga_keys"} =>
        /\ bg_stop_pc[t] \in {"ga_lock", "ga_keys"}
        /\ bg_stop_sl[t] = bg_sleeps[t]

\* task p, in a cleanup called on a handle, takes a step
CleanupStep(p) ==
    /\ op[p] = "cleanup"
    /\ pc[p] \in {"d_cleanup", "d_rm"}
    /\ pc'[p] # pc[p]

\* C16: cleanup is idempotent. No step of it changes the status of a sandbox.
\* When the bundle directory does not exist it returns Ok having changed
\* nothing; when it exists and, run alone, the removal does not fail, it
\* returns Ok with the bundle gone and the other bundles as they were: the
\* state in which a further call changes nothing.
C16_CleanupIdempotent ==
    [][\A p \in Procs :
          CleanupStep(p) =>
            /\ sandbox' = sandbox
            /\ functions' = functions
            /\ pc'[p] = "done" =>
                  LET l == log'[p]
                      id == cur_id[p]
                  IN
                  /\ l[1][1] = "exists"
                  /\ l[1][3] = "false" =>
                        /\ Len(l) = 1
                        /\ ret'[p] = "Ok"
                        /\ fs' = fs
                        /\ fs[id] = {}
                  /\ l[1][3] = "true" /\ alone[p] /\ Failures(l) = {} =>
                        /\ l = <<<<"exists", id, "true">>, <<"remove_dir_all", id, "Ok">>>>
                        /\ ret'[p] = "Ok"
                        /\ fs'[id] = {}
                        /\ \A j \in Ids \ {id} : fs'[j] = fs[j]]_vars

\* a cleanup of an id whose bundle an earlier cleanup removed returns Ok at
\* the check; the sandbox of the id is still known to the runtime
C16_Witness ==
    \E p \in Procs :
      /\ Done(p, "cleanup")
      /\ ret[p] = "Ok"
      /\ log[p] = <<<<"exists", cur_id[p], "false">>>>
      /\ sandbox[cur_id[p]] = "running"
      /\ fs[cur_id[p]] = {}

\* C17: Execute is all-or-error. The worker is called exactly once per
\* request; when it fails, an internal RPC error is returned and no response
\* body; a response body, with its status, is returned only when it succeeded.
C17_ExecuteAllOrError ==
    \A p \in Procs :
      Done(p, "execute") =>
        /\ Len(log[p]) = 1
        /\ log[p][1][1] = "execute"
        /\ log[p][1][3] # "Ok" => ret[p] = "Internal" /\ resp[p] = {}
        /\ log[p][1][3] = "Ok" =>
              ret[p] = "Ok" /\ resp[p] = {[status |-> "Ok", resp |-> "Anwser"]}
        /\ resp[p] # {} => log[p][1][3] = "Ok"

\* a request fails in the worker while another request is being handled
C17_Witness ==
    \E p, q \in Procs :
      /\ Done(p, "execute")
      /\ ret[p] = "Internal"
      /\ resp[p] = {}
      /\ pc[q] = "ex_worker"

\* C18: provisioning has no rollback. When new() fails in build_container or
\* start_container, the error is returned, no call of new() removed anything,
\* and, run alone, the bundle it created is complete on disk at the return.
C18_ProvisionNoRollback ==
    \A p \in Procs :
      Done(p, "new") /\ ret[p] \in {"SandboxBuildFailure", "SandboxStartFailure"} =>
        /\ rootfs[p] = get_instance_path(cur_id[p])
        /\ SubSeq(log[p], 1, 6) = CreateCalls(cur_id[p])
        /\ \A i \in 1..Len(log[p]) : log[p][i][1] # "remove_dir_all"
        /\ alone[p] => fs[cur_id[p]] = FullBundle

\* a provision that ran alone failed at the start of the sandbox it built
C18_Witness ==
    \E p \in Procs :
      /\ Done(p, "new")
      /\ ret[p] = "SandboxStartFailure"
      /\ alone[p]
      /\ fs[cur_id[p]] = FullBundle
      /\ sandbox[cur_id[p]] = "created"

\* the place of a call in new(): 1 bundle creation, 2 build, 3 start
NewPhase(name) ==
    IF name = "build_container" THEN 2
    ELSE IF name = "start_container" THEN 3
    ELSE 1

\* the indexes in a log of the calls of one name
CallsOf(l, name) == {i \in 1..Len(l) : l[i][1] = name}

\* C19: provisioning is ordered and terminal. new() makes, in order and each
\* at most once, the bundle creation, build_container for the same id on the
\* path the creation returned, and start_container; a failing call is the
\* last call, its error the one returned; and the handle is returned exactly
\* when all three were made and none failed.
C19_ProvisionOrdered ==
    \A p \in Procs :
      Done(p, "new") =>
        LET l == log[p] IN
        /\ \A i, j \in 1..Len(l) : i < j => NewPhase(l[i][1]) <= NewPhase(l[j][1])
        /\ \A i \in 1..Len(l) : l[i][2] = cur_id[p]
        /\ CallsOf(l, "exists") = {1}
        /\ Cardinality(CallsOf(l, "build_container")) <= 1
        /\ Cardinality(CallsOf(l, "start_container")) <= 1
        /\ CallsOf(l, "build_container") # {} =>
              /\ SubSeq(l, 1, 6) = CreateCalls(cur_id[p])
              /\ rootfs[p] = get_instance_path(cur_id[p])
        /\ CallsOf(l, "start_container") # {} =>
              \E i \in CallsOf(l, "build_container") : l[i][3] = "Ok"
        /\ Failures(l) \subseteq {Len(l)}
        /\ (ret[p] = "Ok") <=>
              l = CreateCalls(cur_id[p]) \o
                    <<<<"build_container", cur_id[p], "Ok">>,
                      <<"start_container", cur_id[p], "Ok">>>>
        /\ ret[p] # "Ok" =>
              IF l[1][3] = "true" THEN ret[p] = "AlreadyExists"
              ELSE Failures(l) = {Len(l)} /\ ret[p] = l[Len(l)][3]

\* a provision returns the handle while another provision is under way
C19_Witness ==
    \E p, q \in Procs :
      /\ Done(p, "new")
      /\ ret[p] = "Ok"
      /\ Len(log[p]) = 8
      /\ sandbox[cur_id[p]] = "running"
      /\ op[q] = "new" /\ ~Idle(q)

\* task q waits for the lock of the registry in an operation on one id
WaitsForLock(q) ==
    \/ op[q] = "get" /\ pc[q] = "get_lock" /\ ~CanRead
    \/ op[q] = "insert" /\ pc[q] = "ins_lock" /\ ~CanWrite
    \/ op[q] \in {"delete", "delete_all"} /\ pc[q] = "d_lock" /\ ~CanWrite

\* task p holds a guard of the lock in a get, an insert or a delete of one id
HoldsLockFor(p) ==
    /\ p \in rw_readers \cup rw_writer
    /\ pc[p] \in {"get_read", "ins_write", "d_remove"}

\* C20 (as claimed): no registry operation on an id waits for the lock while
\* the lock is held on behalf of a registry operation on another id.
C20_NoCrossInstanceBlocking ==
    \A p, q \in Procs :
      HoldsLockFor(p) /\ WaitsForLock(q) => cur_id[p] = cur_id[q]

\* task p, in a delete called by itself, takes a step
DeleteStep(p) ==
    /\ op[p] = "delete"
    /\ pc[p] \in {"d_load", "d_cleanup", "d_rm", "d_lock", "d_remove"}
    /\ pc'[p] # pc[p]

\* C21: delete never stops a sandbox and may start one. No step of a delete
\* takes a sandbox out of Running or touches the sandbox of another id. Its
\* reattach calls start_container exactly once when the sandbox loaded is
\* not Running and not at all when it is. A delete that returns Ok made the
\* calls load, start (if any), cleanup, entry removal in this order, none of
\* them a stop; the entry is gone, and, run alone, so is the bundle.
C21_DeleteStartsNeverStops ==
    [][\A p \in Procs :
          DeleteStep(p) =>
            LET l == log'[p]
                id == cur_id[p]
            IN
            /\ sandbox[id] = "running" => sandbox'[id] = "running"
            /\ \A j \in Ids \ {id} : sandbox'[j] = sandbox[j]
            /\ pc[p] = "d_load" /\ l[1][3] = "Ok" =>
                  IF sandbox[id] = "running"
                  THEN Len(l) = 1
                  ELSE Len(l) = 2 /\ l[2][1] = "start_container"
            /\ pc'[p] = "done" /\ ret'[p] = "Ok" =>
                  /\ l[1] = <<"load_container", id, "Ok">>
                  /\ Cardinality(CallsOf(l, "start_container")) <= 1
                  /\ \A i \in 1..Len(l) :
                        l[i][1] \in {"load_container", "start_container", "exists",
                                     "remove_dir_all", "remove"}
                  /\ \A i, j \in 1..Len(l) : i < j => Phase(l[i][1]) <= Phase(l[j][1])
                  /\ Failures(l) = {}
                  /\ l[Len(l)] = <<"remove", id, "Ok">>
                  /\ id \notin DOMAIN functions'
                  /\ alone[p] => fs'[id] = {} /\ CallsOf(l, "remove_dir_all") # {}]_vars

\* a delete that ran alone found the sandbox stopped, started it, removed the
\* bundle and the entry, and returned Ok; the sandbox is running
C21_Witness ==
    \E p \in Procs :
      /\ Done(p, "delete")
      /\ ret[p] = "Ok"
      /\ alone[p]
      /\ log[p] = <<<<"load_container", cur_id[p], "Ok">>,
                    <<"start_container", cur_id[p], "Ok">>,
                    <<"exists", cur_id[p], "true">>,
                    <<"remove_dir_all", cur_id[p], "Ok">>,
                    <<"remove", cur_id[p], "Ok">>>>
      /\ fs[cur_id[p]] = {}
      /\ sandbox[cur_id[p]] = "running"
      /\ cur_id[p] \in DOMAIN pre[p]

\* task p takes a step of new() that hands the result to the caller
NewReturns(p) == op[p] = "new" /\ pc[p] # "done" /\ pc'[p] = "done"

\* C22: a failed provision blocks retries. When new(), run alone, fails after
\* it created the bundle directory, the directory is there at its return; a bundle
\* directory goes away only by a remove_dir_all of that id; and a new() whose
\* existence check finds the directory fails there with AlreadyExists, having
\* created nothing and called neither build_container nor start_container.
C22_FailedProvisionBlocksRetries ==
    [][/\ \A p \in Procs :
            /\ NewReturns(p) /\ ret'[p] # "Ok" /\ alone[p]
                 /\ (\E i \in 1..Len(log'[p]) : log'[p][i] = <<"create_dir", cur_id[p], "Ok">>)
                  => BundleDir \in fs'[cur_id[p]]
            /\ op[p] = "new" /\ pc[p] = "n_exists" /\ pc'[p] # "n_exists"
                 /\ BundleDir \in fs[cur_id[p]]
                  => /\ pc'[p] = "done"
                     /\ ret'[p] = "AlreadyExists"
                     /\ log'[p] = <<<<"exists", cur_id[p], "true">>>>
                     /\ fs' = fs
                     /\ sandbox' = sandbox
       /\ \A id \in Ids :
            BundleDir \in fs[id] /\ BundleDir \notin fs'[id] =>
              \E q \in Procs : pc[q] = "d_rm" /\ cur_id[q] = id /\ pc'[q] # "d_rm"]_vars

\* with the partial bundle of a provision that failed at the copy on disk and
\* nothing else under way, a provision of the id is refused at the check
C22_Witness ==
    \E p \in Procs :
      /\ Done(p, "new")
      /\ ret[p] = "AlreadyExists"
      /\ log[p] = <<<<"exists", cur_id[p], "true">>>>
      /\ fs[cur_id[p]] = {".", "config.json", "rootfs"}
      /\ \A q \in Procs \ {p} : Idle(q)

\* the keys of a delete_all's snapshot
KeySet(p) == {keys[p][i] : i \in 1..Len(keys[p])}

\* task p is in the per-key deletes of a delete_all, short of the write lock
InKeyDeletes(p) ==
    op[p] = "delete_all" /\ pc[p] \in {"d_load", "d_cleanup", "d_rm", "d_lock"}

\* C23: delete_all only deletes the keys of its snapshot. The snapshot is the
\* key set of the registry at the moment it is taken, under the read guard,
\* which is released with it; in the per-key deletes no guard is held but the
\* write guard of each final removal; every call of the run is about a
\* snapshotted key; and at the return the entries of all other ids are as
\* they would be without the delete_all, so an entry inserted meanwhile
\* under a new id is still there.
C23_DeleteAllSnapshotOnly ==
    [][\A p \in Procs :
          /\ op[p] = "delete_all" /\ pc[p] = "da_keys" /\ pc'[p] # "da_keys" =>
                /\ p \in rw_readers
                /\ KeySet(p)' = DOMAIN functions
                /\ Len(keys'[p]) = Cardinality(DOMAIN functions)
                /\ p \notin rw_readers' \cup rw_writer'
          /\ InKeyDeletes(p) => p \notin rw_readers \cup rw_writer
          /\ op[p] = "delete_all" /\ pc[p] # "done" /\ pc'[p] = "done" =>
                /\ \A i \in 1..Len(log'[p]) : log'[p][i][2] \in KeySet(p)'
                /\ \A id \in Ids \ KeySet(p)' :
                      MapGet(functions', id) = MapGet(pre'[p], id)]_vars

\* a delete_all of one key returns Ok while the registry holds an entry
\* inserted under another id after the snapshot
C23_Witness ==
    \E p \in Procs :
      /\ Done(p, "delete_all")
      /\ ret[p] = "Ok"
      /\ Len(keys[p]) = 1
      /\ \E id \in Ids \ KeySet(p) : id \in DOMAIN functions

\* task p is in a delete of its own, short of the write lock
InDiskPhase(p) ==
    op[p] = "delete" /\ pc[p] \in {"d_load", "d_cleanup", "d_rm", "d_lock"}

\* C24: delete holds the write lock only for the final entry removal. In its
\* reattach and cleanup it holds no guard and the registry is as it would be
\* without the call, so a get of the id returns the old entry, bundle removed
\* or not, and an insert of the id goes through; it holds the write guard
\* exactly at the removal; and when it returns Ok the id has no entry,
\* whatever was inserted for it meanwhile.
C24_DeleteLocksOnlyForRemoval ==
    \A p \in Procs :
      /\ InDiskPhase(p) =>
            /\ p \notin rw_readers \cup rw_writer
            /\ functions = pre[p]
      /\ op[p] = "delete" /\ pc[p] = "d_remove" =>
            /\ rw_writer = {p}
            /\ functions = pre[p]
      /\ Done(p, "get") => ret_inv[p] = MapGet(functions, cur_id[p])
      /\ Done(p, "delete") /\ ret[p] = "Ok" => MapGet(functions, cur_id[p]) = {}

\* a delete returns Ok having removed the entry that an insert of the same id,
\* the only other call so far, wrote while the delete was under way
C24_Witness ==
    \E p \in Procs :
      /\ Done(p, "delete")
      /\ ret[p] = "Ok"
      /\ ~alone[p]
      /\ nops = 2
      /\ cur_id[p] \in DOMAIN pre[p]
      /\ MapGet(functions, cur_id[p]) = {}

\* a step of the reconciler: of start, of stop, or of a spawned task
BgStep ==
    \/ cancel' # cancel
    \/ \E t \in BgTasks : bg_pc'[t] # bg_pc[t] \/ bg_left'[t] # bg_left[t]

\* task t was spawned by a start() that came after stop()
SpawnedAfterStop(t) == cancel /\ bg_stop_pc[t] = "unspawned"

\* C25: cancellation is permanent and shared. The flag, once set, stays set;
\* a task leaves its loop only with the flag set, and has not left it while
\* the flag is not set; a task spawned after stop() has begun no sleep and no
\* observation pass, and its first step takes it out of the loop; no step of
\* the reconciler changes the registry; and once stop() has been called every
\* spawned task eventually terminates.
C25_CancellationPermanentShared ==
    /\ [][/\ cancel => cancel'
          /\ BgStep => functions' = functions
          /\ \A t \in BgTasks :
                SpawnedAfterStop(t) /\ bg_pc'[t] # bg_pc[t] =>
                    bg_pc'[t] = IF bg_pc[t] = "unspawned" THEN "check" ELSE "exit"]_vars
    /\ [](\A t \in BgTasks :
            /\ bg_pc[t] = "exit" => cancel
            /\ SpawnedAfterStop(t) =>
                  /\ bg_pc[t] \in {"unspawned", "check", "exit"}
                  /\ bg_sleeps[t] = 0)
    /\ \A t \in BgTasks :
          (cancel /\ bg_pc[t] # "unspawned") ~> (bg_pc[t] = "exit")

\* stop() was called during the first task's observation of a non-empty
\* registry; that task has terminated, and so has one spawned afterwards,
\* which has not slept
C25_Witness ==
    \E t, u \in BgTasks :
      /\ cancel
      /\ functions # EmptyMap
      /\ bg_stop_pc[t] \in {"sleep", "ga_lock", "ga_keys"}
      /\ bg_pc[t] = "exit"
      /\ bg_sleeps[t] >= 1
      /\ SpawnedAfterStop(u)
      /\ bg_pc[u] = "exit"
      /\ bg_sleeps[u] = 0

====
